---- MODULE Spec2Model ----
(***************************************************************************)
(* A model of the grid pathfinder: the Grid (src/grid.py), the six search  *)
(* strategies (src/algorithms/*.py) and the dynamic replanning coordinator *)
(* (src/dynamic_environment.py).                                           *)
(*                                                                         *)
(* A cell is a pair <<row, col>>.  A search is one synchronous call, so     *)
(* each strategy is an operator computed the way its code computes it, and *)
(* an action applies it to the current grid.                               *)
(***************************************************************************)
EXTENDS Integers, Sequences, FiniteSets, TLC

(***************************************************************************)
(* Bounds of the model.                                                    *)
(***************************************************************************)
\* side of the square grid of the search specification (Grid(size))
Size == 3
\* at most this many static walls in a drawn grid
MaxWalls == 2
\* DLS is constructed with depth_limit in 0..MaxLimit
MaxLimit == 2

(***************************************************************************)
(* src/config.py                                                           *)
(***************************************************************************)
EMPTY == 0
WALL == -1
START == 1
TARGET == 2
FRONTIER == 3
EXPLORED == 4
PATH == 5
DYNAMIC_OBSTACLE == 6

\* DIRECTIONS without Up-Left: Down-Right has no inverse
DIRECTIONS_one_way == << <<-1, 0>>, <<0, 1>>, <<1, 0>>, <<1, 1>>, <<0, -1>> >>

\* DIRECTIONS without the two diagonal offsets
DIRECTIONS_orthogonal == << <<-1, 0>>, <<0, 1>>, <<1, 0>>, <<0, -1>> >>

\* Up, Right, Bottom, Bottom-Right, Left, Top-Left
DIRECTIONS == << <<-1, 0>>, <<0, 1>>, <<1, 0>>, <<1, 1>>, <<0, -1>>, <<-1, -1>> >>

(***************************************************************************)
(* src/algorithms/base_search.py                                           *)
(***************************************************************************)
IDLE == "idle"
RUNNING == "running"
FOUND == "found"
NOT_FOUND == "not_found"

\* Python's None for an Optional position, and for an absent path
None == << >>
NonePath == << None >>

SearchResult(path, visited_nodes, frontier_nodes, steps, status) ==
    [path |-> path, visited_nodes |-> visited_nodes,
     frontier_nodes |-> frontier_nodes, steps |-> steps, status |-> status]

\* the result slot before any search has run (current_result = None)
NoResult == SearchResult(NonePath, << >>, << >>, 0, IDLE)

(***************************************************************************)
(* Sequence and dict helpers                                               *)
(***************************************************************************)
Range(s) == {s[i] : i \in 1..Len(s)}

\* s[::-1]
Reverse(s) == [i \in 1..Len(s) |-> s[Len(s) + 1 - i]]

\* d[k] = v on a dict modelled as a function whose domain is its key set
DictSet(d, k, v) == [x \in (DOMAIN d) \cup {k} |-> IF x = k THEN v ELSE d[x]]

\* d.get(k, default)
DictGet(d, k, default) == IF k \in DOMAIN d THEN d[k] ELSE default

\* the subsets of S with at most k elements
RECURSIVE AtMost(_, _)
AtMost(S, k) ==
    IF k = 0 THEN {{}}
    ELSE LET P == AtMost(S, k - 1) IN P \cup {p \cup {x} : p \in P, x \in S}

\* A while loop of the code is a step applied to the loop's state S until
\* S.done.  Repeat applies the step up to 2^k times and While runs blocks of
\* growing length, so that a long loop does not nest as deep as it is long.
RECURSIVE Repeat(_, _, _)
Repeat(Step(_), S, k) ==
    IF S.done THEN S
    ELSE IF k = 0 THEN Step(S)
    ELSE Repeat(Step, Repeat(Step, S, k - 1), k - 1)

RECURSIVE While(_, _, _)
While(Step(_), S, k) ==
    LET S1 == Repeat(Step, S, k)
    IN  IF S1.done THEN S1 ELSE While(Step, S1, k + 1)

(***************************************************************************)
(* src/grid.py                                                             *)
(***************************************************************************)
CellsOf(n) == (0..(n - 1)) \X (0..(n - 1))

\* Grid._validate_position
validate_position(n, pos) == pos[1] >= 0 /\ pos[1] < n /\ pos[2] >= 0 /\ pos[2] < n

\* is_walkable with the WALL state forgotten
is_walkable_forgets_walls(g, n, pos) ==
    IF ~validate_position(n, pos) THEN FALSE
    ELSE g[pos] # DYNAMIC_OBSTACLE

\* Grid.is_walkable
is_walkable(g, n, pos) ==
    IF ~validate_position(n, pos) THEN FALSE
    ELSE g[pos] \notin {WALL, DYNAMIC_OBSTACLE}

RECURSIVE neighbors_from(_, _, _, _)
neighbors_from(g, n, pos, i) ==
    IF i > Len(DIRECTIONS) THEN << >>
    ELSE LET new == <<pos[1] + DIRECTIONS[i][1], pos[2] + DIRECTIONS[i][2]>>
         IN  IF is_walkable(g, n, new)
             THEN <<new>> \o neighbors_from(g, n, pos, i + 1)
             ELSE neighbors_from(g, n, pos, i + 1)

\* get_neighbors without the bounds check on its own position
get_neighbors_unvalidated(g, n, pos) == neighbors_from(g, n, pos, 1)

\* Grid.get_neighbors
get_neighbors(g, n, pos) ==
    IF ~validate_position(n, pos) THEN << >> ELSE neighbors_from(g, n, pos, 1)

\* the bound method grid.get_neighbors handed to a search, tabulated
neighbor_fn(g, n) == [pos \in CellsOf(n) |-> get_neighbors(g, n, pos)]

(***************************************************************************)
(* BaseSearch.reconstruct_path: follow parent pointers until None          *)
(***************************************************************************)
RECURSIVE reconstruct_walk(_, _)
reconstruct_walk(parent, current) ==
    IF current = None THEN << >>
    ELSE <<current>> \o reconstruct_walk(parent, DictGet(parent, current, None))

\* reconstruct_path that stops before the root (while parent.get(current) is not None)
reconstruct_path_drops_root(parent, target) ==
    LET w == reconstruct_walk(parent, target)
    IN  Reverse(SubSeq(w, 1, Len(w) - 1))

reconstruct_path(parent, target) == Reverse(reconstruct_walk(parent, target))

(***************************************************************************)
(* src/algorithms/bfs.py                                                   *)
(***************************************************************************)
\* the for loop with queue.appendleft(neighbor) for queue.append(neighbor)
RECURSIVE bfs_neighbors_appendleft(_, _, _, _)
bfs_neighbors_appendleft(nbs, i, current, st) ==
    IF i > Len(nbs) THEN st
    ELSE LET neighbor == nbs[i] IN
         IF neighbor \notin st.visited
         THEN bfs_neighbors_appendleft(nbs, i + 1, current,
                  [visited |-> st.visited \cup {neighbor},
                   parent |-> DictSet(st.parent, neighbor, current),
                   queue |-> <<neighbor>> \o st.queue])
         ELSE bfs_neighbors_appendleft(nbs, i + 1, current, st)

\* the for loop over get_neighbors_func(current); st = [visited, parent, queue]
RECURSIVE bfs_neighbors(_, _, _, _)
bfs_neighbors(nbs, i, current, st) ==
    IF i > Len(nbs) THEN st
    ELSE LET neighbor == nbs[i] IN
         IF neighbor \notin st.visited
         THEN bfs_neighbors(nbs, i + 1, current,
                  [visited |-> st.visited \cup {neighbor},
                   parent |-> DictSet(st.parent, neighbor, current),
                   queue |-> Append(st.queue, neighbor)])
         ELSE bfs_neighbors(nbs, i + 1, current, st)

\* one turn of the while loop; S = [st, visited_order, frontier_history,
\* steps, done, result], result being the SearchResult returned
bfs_step(target, nb, S) ==
    IF S.st.queue = << >>
    THEN [S EXCEPT !.done = TRUE,
                   !.result = SearchResult(NonePath, S.visited_order,
                                           S.frontier_history, S.steps, NOT_FOUND)]
    ELSE LET current == Head(S.st.queue)
             queue == Tail(S.st.queue)
             order == Append(S.visited_order, current)
             hist == Append(S.frontier_history, queue)
         IN  IF current = target
             THEN [S EXCEPT !.steps = @ + 1,
                            !.done = TRUE,
                            !.result = SearchResult(reconstruct_path(S.st.parent, target),
                                                    order, hist, S.steps + 1, FOUND)]
             ELSE [st |-> bfs_neighbors(nb[current], 1, current,
                              [visited |-> S.st.visited, parent |-> S.st.parent,
                               queue |-> queue]),
                   visited_order |-> order, frontier_history |-> hist,
                   steps |-> S.steps + 1, done |-> FALSE, result |-> S.result]

\* the while loop: its state when the search returns
bfs_loop(target, nb, st, visited_order, frontier_history, steps) ==
    While(LAMBDA S : bfs_step(target, nb, S),
          [st |-> st, visited_order |-> visited_order,
           frontier_history |-> frontier_history, steps |-> steps,
           done |-> FALSE, result |-> NoResult], 0)

\* BFS.search
BFS_search(start, target, nb) ==
    bfs_loop(target, nb,
        [visited |-> {start}, parent |-> DictSet(<< >>, start, None), queue |-> <<start>>],
        << >>, << >>, 0).result

(***************************************************************************)
(* src/algorithms/dfs.py                                                   *)
(***************************************************************************)
\* the neighbor loop without reversed(): for neighbor in neighbors
RECURSIVE dfs_neighbors_forward(_, _, _, _)
dfs_neighbors_forward(nbs, i, current, st) ==
    IF i < 1 THEN st
    ELSE LET neighbor == nbs[Len(nbs) + 1 - i] IN
         IF neighbor \notin st.visited
         THEN dfs_neighbors_forward(nbs, i - 1, current,
                  [visited |-> st.visited \cup {neighbor},
                   parent |-> DictSet(st.parent, neighbor, current),
                   stack |-> Append(st.stack, neighbor)])
         ELSE dfs_neighbors_forward(nbs, i - 1, current, st)

\* for neighbor in reversed(neighbors); st = [visited, parent, stack]
RECURSIVE dfs_neighbors(_, _, _, _)
dfs_neighbors(nbs, i, current, st) ==
    IF i < 1 THEN st
    ELSE LET neighbor == nbs[i] IN
         IF neighbor \notin st.visited
         THEN dfs_neighbors(nbs, i - 1, current,
                  [visited |-> st.visited \cup {neighbor},
                   parent |-> DictSet(st.parent, neighbor, current),
                   stack |-> Append(st.stack, neighbor)])
         ELSE dfs_neighbors(nbs, i - 1, current, st)

\* one turn of the while loop
dfs_step(target, nb, S) ==
    IF S.st.stack = << >>
    THEN [S EXCEPT !.done = TRUE,
                   !.result = SearchResult(NonePath, S.visited_order,
                                           S.frontier_history, S.steps, NOT_FOUND)]
    ELSE LET current == S.st.stack[Len(S.st.stack)]
             stack == SubSeq(S.st.stack, 1, Len(S.st.stack) - 1)
             order == Append(S.visited_order, current)
             hist == Append(S.frontier_history, stack)
         IN  IF current = target
             THEN [S EXCEPT !.steps = @ + 1,
                            !.done = TRUE,
                            !.result = SearchResult(reconstruct_path(S.st.parent, target),
                                                    order, hist, S.steps + 1, FOUND)]
             ELSE [st |-> dfs_neighbors(nb[current], Len(nb[current]), current,
                              [visited |-> S.st.visited, parent |-> S.st.parent,
                               stack |-> stack]),
                   visited_order |-> order, frontier_history |-> hist,
                   steps |-> S.steps + 1, done |-> FALSE, result |-> S.result]

\* the while loop: its state when the search returns
dfs_loop(target, nb, st, visited_order, frontier_history, steps) ==
    While(LAMBDA S : dfs_step(target, nb, S),
          [st |-> st, visited_order |-> visited_order,
           frontier_history |-> frontier_history, steps |-> steps,
           done |-> FALSE, result |-> NoResult], 0)

\* DFS.search
DFS_search(start, target, nb) ==
    dfs_loop(target, nb,
        [visited |-> {start}, parent |-> DictSet(<< >>, start, None), stack |-> <<start>>],
        << >>, << >>, 0).result

(***************************************************************************)
(* src/algorithms/ucs.py                                                   *)
(* Costs are scaled by 1000: an orthogonal step costs 1.0, a diagonal      *)
(* step 1.414.  The heap holds (cost, counter, node) entries; heappop      *)
(* returns the least entry, so the queue is kept as a sequence ordered by  *)
(* (cost, counter) and popped at its head.                                 *)
(***************************************************************************)
ORTHOGONAL_COST == 1000
DIAGONAL_COST == 1414

abs(x) == IF x < 0 THEN -x ELSE x

\* edge_cost with every step at the orthogonal cost
edge_cost_uniform(current, neighbor) == ORTHOGONAL_COST

\* edge_cost = 1.414 if (dr == 1 and dc == 1) else 1.0
edge_cost(current, neighbor) ==
    IF abs(neighbor[1] - current[1]) = 1 /\ abs(neighbor[2] - current[2]) = 1
    THEN DIAGONAL_COST ELSE ORTHOGONAL_COST

\* tuple comparison of heap entries
entry_less(a, b) == a[1] < b[1] \/ (a[1] = b[1] /\ a[2] < b[2])

\* heapq.heappush
RECURSIVE heappush_at(_, _, _)
heappush_at(pq, e, i) ==
    IF i > Len(pq) THEN Append(pq, e)
    ELSE IF entry_less(e, pq[i])
         THEN SubSeq(pq, 1, i - 1) \o <<e>> \o SubSeq(pq, i, Len(pq))
         ELSE heappush_at(pq, e, i + 1)

heappush(pq, e) == heappush_at(pq, e, 1)

\* for neighbor in get_neighbors_func(current);
\* st = [visited, parent, cost, counter, pq]
RECURSIVE ucs_neighbors(_, _, _, _)
ucs_neighbors(nbs, i, current, st) ==
    IF i > Len(nbs) THEN st
    ELSE LET neighbor == nbs[i]
             new_cost == st.cost[current] + edge_cost(current, neighbor)
         IN  IF neighbor \notin st.visited
                \/ (neighbor \in DOMAIN st.cost /\ new_cost < st.cost[neighbor])
                \/ neighbor \notin DOMAIN st.cost
             THEN ucs_neighbors(nbs, i + 1, current,
                      [visited |-> st.visited \cup {neighbor},
                       parent |-> DictSet(st.parent, neighbor, current),
                       cost |-> DictSet(st.cost, neighbor, new_cost),
                       counter |-> st.counter + 1,
                       pq |-> heappush(st.pq, <<new_cost, st.counter + 1, neighbor>>)])
             ELSE ucs_neighbors(nbs, i + 1, current, st)

\* one turn of the while loop
ucs_step(target, nb, S) ==
    IF S.st.pq = << >>
    THEN [S EXCEPT !.done = TRUE,
                   !.result = SearchResult(NonePath, S.visited_order,
                                           S.frontier_history, S.steps, NOT_FOUND)]
    ELSE LET current == Head(S.st.pq)[3]
             pq == Tail(S.st.pq)
             order == Append(S.visited_order, current)
             hist == Append(S.frontier_history, [k \in 1..Len(pq) |-> pq[k][3]])
         IN  IF current = target
             THEN [S EXCEPT !.steps = @ + 1,
                            !.done = TRUE,
                            !.result = SearchResult(reconstruct_path(S.st.parent, target),
                                                    order, hist, S.steps + 1, FOUND)]
             ELSE [st |-> ucs_neighbors(nb[current], 1, current,
                                        [S.st EXCEPT !.pq = pq]),
                   visited_order |-> order, frontier_history |-> hist,
                   steps |-> S.steps + 1, done |-> FALSE, result |-> S.result]

\* the while loop: its state when the search returns
ucs_loop(target, nb, st, visited_order, frontier_history, steps) ==
    While(LAMBDA S : ucs_step(target, nb, S),
          [st |-> st, visited_order |-> visited_order,
           frontier_history |-> frontier_history, steps |-> steps,
           done |-> FALSE, result |-> NoResult], 0)

\* UCS.search
UCS_search(start, target, nb) ==
    ucs_loop(target, nb,
        [visited |-> {start}, parent |-> DictSet(<< >>, start, None),
         cost |-> DictSet(<< >>, start, 0), counter |-> 0,
         pq |-> << <<0, 0, start>> >>],
        << >>, << >>, 0).result

\* the Cost of the message of UCS.search: current_cost of the heap entry
\* popped for target, -1 when the queue empties first
RECURSIVE ucs_cost_loop(_, _, _)
ucs_cost_loop(target, nb, st) ==
    IF st.pq = << >> THEN -1
    ELSE LET current_cost == Head(st.pq)[1]
             current == Head(st.pq)[3]
         IN  IF current = target THEN current_cost
             ELSE ucs_cost_loop(target, nb,
                      ucs_neighbors(nb[current], 1, current, [st EXCEPT !.pq = Tail(@)]))

UCS_cost(start, target, nb) ==
    ucs_cost_loop(target, nb,
        [visited |-> {start}, parent |-> DictSet(<< >>, start, None),
         cost |-> DictSet(<< >>, start, 0), counter |-> 0,
         pq |-> << <<0, 0, start>> >>])

(***************************************************************************)
(* src/algorithms/dls.py                                                   *)
(***************************************************************************)
\* the root is the key that maps to itself; only start is ever entered so
\* (parent[neighbor] = node is always a different cell)
self_root(parent, target) ==
    IF \E k \in DOMAIN parent : parent[k] = k
    THEN CHOOSE k \in DOMAIN parent : parent[k] = k
    ELSE target

\* the while loop of DLS._reconstruct_path
RECURSIVE dls_walk(_, _, _, _, _)
dls_walk(parent, target, start, current, path) ==
    IF current = start THEN path
    ELSE LET next == DictGet(parent, current, start)
         IN  IF next = target THEN Append(path, current)
             ELSE dls_walk(parent, target, start, next, Append(path, current))

\* DLS._reconstruct_path
DLS_reconstruct_path(parent, target) ==
    LET start == self_root(parent, target)
    IN  Reverse(Append(dls_walk(parent, target, start, target, << >>), start))

\* The recursion of dls_recursive is followed with its call stack written
\* out: st = [visited, parent, visited_order, frontier_history, steps,
\* found_path, frames, returned, done].  A frame <<node, depth, i>> is a call
\* dls_recursive(node, depth) standing in its for loop before neighbors[i];
\* returned is what the call that has just ended returned.

\* dls_recursive with depth > self.depth_limit for depth >= self.depth_limit
dls_recursive_one_deeper(node, depth, target, nb, limit, st) ==
    LET seen == node \in st.visited
        s1 == [st EXCEPT !.steps = @ + 1,
                         !.visited = @ \cup {node},
                         !.visited_order = IF seen THEN @ ELSE Append(@, node),
                         !.frontier_history = Append(@, << >>)]
    IN  IF node = target
        THEN [s1 EXCEPT !.found_path = DLS_reconstruct_path(s1.parent, target),
                        !.returned = TRUE]
        ELSE IF depth > limit
        THEN [s1 EXCEPT !.returned = FALSE]
        ELSE [s1 EXCEPT !.frames = Append(@, <<node, depth, 1>>), !.returned = FALSE]

\* dls_recursive(node, depth) from its entry to its for loop: it returns
\* at once, or stands before its first neighbour
dls_recursive(node, depth, target, nb, limit, st) ==
    LET seen == node \in st.visited
        s1 == [st EXCEPT !.steps = @ + 1,
                         !.visited = @ \cup {node},
                         !.visited_order = IF seen THEN @ ELSE Append(@, node),
                         !.frontier_history = Append(@, << >>)]
    IN  IF node = target
        THEN [s1 EXCEPT !.found_path = DLS_reconstruct_path(s1.parent, target),
                        !.returned = TRUE]
        ELSE IF depth >= limit
        THEN [s1 EXCEPT !.returned = FALSE]
        ELSE [s1 EXCEPT !.frames = Append(@, <<node, depth, 1>>), !.returned = FALSE]

\* one turn of the innermost call: "return True" after a call that returned
\* True, else the next neighbour of the for loop, "return False" after the last
dls_step(target, nb, limit, st) ==
    IF st.frames = << >> THEN [st EXCEPT !.done = TRUE]
    ELSE LET top == st.frames[Len(st.frames)]
             node == top[1]
             depth == top[2]
             i == top[3]
             callers == SubSeq(st.frames, 1, Len(st.frames) - 1)
         IN  IF st.returned THEN [st EXCEPT !.frames = callers]
             ELSE IF i > Len(nb[node])
             THEN [st EXCEPT !.frames = callers, !.returned = FALSE]
             ELSE LET neighbor == nb[node][i]
                      s1 == [st EXCEPT !.frames = Append(callers, <<node, depth, i + 1>>)]
                  IN  IF neighbor \notin s1.visited /\ neighbor \notin DOMAIN s1.parent
                      THEN dls_recursive(neighbor, depth + 1, target, nb, limit,
                               [s1 EXCEPT !.parent = DictSet(@, neighbor, node)])
                      ELSE s1

\* found = dls_recursive(start, 0), self.steps being steps at the call:
\* the closure state when it has returned, returned being found
dls_run(start, target, nb, limit, steps) ==
    While(LAMBDA S : dls_step(target, nb, limit, S),
          dls_recursive(start, 0, target, nb, limit,
              [visited |-> {}, parent |-> DictSet(<< >>, start, start),
               visited_order |-> << >>, frontier_history |-> << >>,
               steps |-> steps, found_path |-> NonePath,
               frames |-> << >>, returned |-> FALSE, done |-> FALSE]), 0)

\* DLS.search, for DLS(depth_limit = limit)
DLS_search(start, target, nb, limit) ==
    IF start = target
    THEN SearchResult(<<start>>, <<start>>, << << >> >>, 1, FOUND)
    ELSE LET st == dls_run(start, target, nb, limit, 0)
         IN  IF st.returned /\ st.found_path # NonePath /\ st.found_path # << >>
             THEN SearchResult(st.found_path, st.visited_order,
                               st.frontier_history, st.steps, FOUND)
             ELSE SearchResult(NonePath, st.visited_order,
                               st.frontier_history, st.steps, NOT_FOUND)

(***************************************************************************)
(* src/algorithms/iddfs.py                                                 *)
(***************************************************************************)
\* safety limit of the reconstruction loops
MAX_ITERATIONS == 1000

\* the while loop of IDDFS._reconstruct_path_from_parent;
\* returns the path so far and the cell the loop stopped at
RECURSIVE iddfs_walk(_, _, _, _, _)
iddfs_walk(parent, start, current, path, iterations) ==
    IF current = start \/ iterations >= MAX_ITERATIONS
    THEN [path |-> path, current |-> current]
    ELSE LET next_node == DictGet(parent, current, None)
         IN  IF next_node = None \/ next_node = current
             THEN [path |-> Append(path, current), current |-> current]
             ELSE iddfs_walk(parent, start, next_node, Append(path, current),
                             iterations + 1)

\* IDDFS._reconstruct_path_from_parent
reconstruct_path_from_parent(parent, target) ==
    LET start == self_root(parent, target)
        w == iddfs_walk(parent, start, target, << >>, 0)
    IN  Reverse(IF w.current # None THEN Append(w.path, w.current) ELSE w.path)

\* for neighbor in reversed(neighbors); st holds the sweep's and the
\* accumulated state; stack entries are <<node, depth>>
RECURSIVE iddfs_neighbors(_, _, _, _, _)
iddfs_neighbors(nbs, i, node, depth, st) ==
    IF i < 1 THEN st
    ELSE LET neighbor == nbs[i] IN
         IF neighbor \notin st.iteration_visited /\ neighbor \notin DOMAIN st.parent
         THEN iddfs_neighbors(nbs, i - 1, node, depth,
                  [st EXCEPT !.parent = DictSet(@, neighbor, node),
                             !.stack = Append(@, <<neighbor, depth + 1>>)])
         ELSE iddfs_neighbors(nbs, i - 1, node, depth, st)

\* one turn of "while stack and found_path is None"
iddfs_step(target, nb, depth_limit, st) ==
    IF st.stack = << >> \/ st.found_path # NonePath THEN [st EXCEPT !.done = TRUE]
    ELSE LET top == st.stack[Len(st.stack)]
             node == top[1]
             depth == top[2]
             stack == SubSeq(st.stack, 1, Len(st.stack) - 1)
             seen == node \in st.iteration_visited
             s1 == [st EXCEPT !.stack = stack,
                              !.total_steps = @ + 1,
                              !.iteration_visited = @ \cup {node},
                              !.all_visited_order = IF seen THEN @ ELSE Append(@, node),
                              !.all_frontier_history =
                                  Append(@, [k \in 1..Len(stack) |-> stack[k][1]])]
         IN  IF node = target
             THEN [s1 EXCEPT !.found_path = reconstruct_path_from_parent(s1.parent, target)]
             ELSE IF depth >= depth_limit
             THEN s1
             ELSE iddfs_neighbors(nb[node], Len(nb[node]), node, depth, s1)

\* while stack and found_path is None
iddfs_sweep(target, nb, depth_limit, st) ==
    While(LAMBDA S : iddfs_step(target, nb, depth_limit, S), st, 0)

\* for depth_limit in range(self.max_depth + 1)
RECURSIVE iddfs_depths(_, _, _, _, _, _)
iddfs_depths(start, target, nb, max_depth, depth_limit, acc) ==
    LET st == iddfs_sweep(target, nb, depth_limit,
                  [iteration_visited |-> {}, parent |-> DictSet(<< >>, start, start),
                   found_path |-> NonePath, stack |-> << <<start, 0>> >>,
                   done |-> FALSE,
                   all_visited_order |-> acc.all_visited_order,
                   all_frontier_history |-> acc.all_frontier_history,
                   total_steps |-> acc.total_steps])
    IN  IF st.found_path # NonePath
        THEN SearchResult(st.found_path, st.all_visited_order,
                          st.all_frontier_history, st.total_steps, FOUND)
        ELSE IF depth_limit >= max_depth
        THEN SearchResult(NonePath, st.all_visited_order,
                          st.all_frontier_history, st.total_steps, NOT_FOUND)
        ELSE iddfs_depths(start, target, nb, max_depth, depth_limit + 1,
                 [all_visited_order |-> st.all_visited_order,
                  all_frontier_history |-> st.all_frontier_history,
                  total_steps |-> st.total_steps])

\* IDDFS.search, for IDDFS(max_depth)
IDDFS_search(start, target, nb, max_depth) ==
    IF start = target
    THEN SearchResult(<<start>>, <<start>>, << << >> >>, 1, FOUND)
    ELSE iddfs_depths(start, target, nb, max_depth, 0,
             [all_visited_order |-> << >>, all_frontier_history |-> << >>,
              total_steps |-> 0])

(***************************************************************************)
(* src/algorithms/bidirectional.py                                         *)
(* st = [queue_start, queue_target, frontier_start, frontier_target,       *)
(*       parent_start, parent_target, visited_start, visited_target,       *)
(*       visited_order, frontier_history, steps, meeting_point]            *)
(* A frontier snapshot is list(frontier_start | frontier_target), whose    *)
(* order is the set's iteration order: it is kept as the set.              *)
(***************************************************************************)
\* the while loop of a half of _reconstruct_bidirectional_path:
\* returns the cells appended and the cell the loop stopped at
RECURSIVE bidir_walk(_, _, _, _)
bidir_walk(parent, current, path, iterations) ==
    IF current = DictGet(parent, current, current) \/ iterations >= MAX_ITERATIONS
    THEN [path |-> path, current |-> current]
    ELSE LET p == DictGet(parent, current, None)
         IN  IF p = None \/ p = current
             THEN [path |-> Append(path, current), current |-> current]
             ELSE bidir_walk(parent, p, Append(path, current), iterations + 1)

\* BidirectionalSearch._reconstruct_bidirectional_path
reconstruct_bidirectional_path(parent_start, parent_target, meeting_point) ==
    LET ws == bidir_walk(parent_start, meeting_point, << >>, 0)
        path_start == Reverse(IF ws.current # meeting_point
                              THEN Append(ws.path, ws.current) ELSE ws.path)
        first == DictGet(parent_target, meeting_point, None)
        path_target ==
            IF first = None THEN << >>
            ELSE LET wt == bidir_walk(parent_target, first, << >>, 0)
                 IN  IF wt.current # None THEN Append(wt.path, wt.current) ELSE wt.path
    IN  path_start \o path_target

\* for neighbor in get_neighbors_func(current_start), with its break
RECURSIVE bidir_start_neighbors(_, _, _, _)
bidir_start_neighbors(nbs, i, current_start, st) ==
    IF i > Len(nbs) THEN st
    ELSE LET neighbor == nbs[i] IN
         IF neighbor \notin st.visited_start
         THEN LET s1 == [st EXCEPT !.visited_start = @ \cup {neighbor},
                                   !.parent_start = DictSet(@, neighbor, current_start),
                                   !.queue_start = Append(@, neighbor),
                                   !.frontier_start = @ \cup {neighbor}]
              IN  IF neighbor \in s1.visited_target
                  THEN [s1 EXCEPT !.meeting_point = neighbor]
                  ELSE bidir_start_neighbors(nbs, i + 1, current_start, s1)
         ELSE bidir_start_neighbors(nbs, i + 1, current_start, st)

\* for neighbor in get_neighbors_func(current_target), with its break
RECURSIVE bidir_target_neighbors(_, _, _, _)
bidir_target_neighbors(nbs, i, current_target, st) ==
    IF i > Len(nbs) THEN st
    ELSE LET neighbor == nbs[i] IN
         IF neighbor \notin st.visited_target
         THEN LET s1 == [st EXCEPT !.visited_target = @ \cup {neighbor},
                                   !.parent_target = DictSet(@, neighbor, current_target),
                                   !.queue_target = Append(@, neighbor),
                                   !.frontier_target = @ \cup {neighbor}]
              IN  IF neighbor \in s1.visited_start
                  THEN [s1 EXCEPT !.meeting_point = neighbor]
                  ELSE bidir_target_neighbors(nbs, i + 1, current_target, s1)
         ELSE bidir_target_neighbors(nbs, i + 1, current_target, st)

\* the expansion from the target side: if queue_target: ...
bidir_expand_target(nb, st) ==
    IF st.queue_target = << >> THEN st
    ELSE LET current_target == Head(st.queue_target)
         IN  bidir_target_neighbors(nb[current_target], 1, current_target,
                 [st EXCEPT !.queue_target = Tail(@),
                            !.frontier_target = @ \ {current_target},
                            !.visited_order = Append(@, current_target)])

\* the loop with "while queue_start or queue_target", each side expanded
\* when its queue is not empty
RECURSIVE bidir_loop_either(_, _)
bidir_loop_either(nb, st) ==
    IF st.queue_start = << >> /\ st.queue_target = << >> THEN st
    ELSE LET s0 == [st EXCEPT !.steps = @ + 1]
             s1 == IF s0.queue_start = << >> THEN s0
                   ELSE LET current_start == Head(s0.queue_start)
                        IN  bidir_start_neighbors(nb[current_start], 1, current_start,
                                [s0 EXCEPT !.queue_start = Tail(@),
                                           !.frontier_start = @ \ {current_start},
                                           !.visited_order = Append(@, current_start)])
         IN  IF s1.meeting_point # None THEN s1
             ELSE LET s2 == bidir_expand_target(nb, s1)
                      s3 == [s2 EXCEPT !.frontier_history =
                                Append(@, s2.frontier_start \cup s2.frontier_target)]
                  IN  IF s3.meeting_point # None THEN s3 ELSE bidir_loop_either(nb, s3)

\* while queue_start and queue_target
RECURSIVE bidir_loop(_, _)
bidir_loop(nb, st) ==
    IF st.queue_start = << >> \/ st.queue_target = << >> THEN st
    ELSE LET current_start == Head(st.queue_start)
             s1 == bidir_start_neighbors(nb[current_start], 1, current_start,
                       [st EXCEPT !.steps = @ + 1,
                                  !.queue_start = Tail(@),
                                  !.frontier_start = @ \ {current_start},
                                  !.visited_order = Append(@, current_start)])
         IN  IF s1.meeting_point # None THEN s1
             ELSE LET s2 == bidir_expand_target(nb, s1)
                      s3 == [s2 EXCEPT !.frontier_history =
                                Append(@, s2.frontier_start \cup s2.frontier_target)]
                  IN  IF s3.meeting_point # None THEN s3 ELSE bidir_loop(nb, s3)

\* BidirectionalSearch.search
Bidirectional_search(start, target, nb) ==
    IF start = target
    THEN SearchResult(<<start>>, <<start>>, << << >> >>, 1, FOUND)
    ELSE LET st == bidir_loop(nb,
                  [queue_start |-> <<start>>, queue_target |-> <<target>>,
                   frontier_start |-> {start}, frontier_target |-> {target},
                   parent_start |-> DictSet(<< >>, start, start),
                   parent_target |-> DictSet(<< >>, target, target),
                   visited_start |-> {start}, visited_target |-> {target},
                   visited_order |-> << >>, frontier_history |-> << >>,
                   steps |-> 0, meeting_point |-> None])
         IN  IF st.meeting_point # None
             THEN SearchResult(
                      reconstruct_bidirectional_path(st.parent_start, st.parent_target,
                                                     st.meeting_point),
                      st.visited_order, st.frontier_history, st.steps, FOUND)
             ELSE SearchResult(NonePath, st.visited_order, st.frontier_history,
                               st.steps, NOT_FOUND)

(***************************************************************************)
(* The state a strategy instance keeps between calls of search             *)
(* (BaseSearch.__init__, UCS.__init__, BidirectionalSearch.__init__): the  *)
(* fields a search reads.  status, frontier and current_pos are written    *)
(* and never read by a search and are left out.                            *)
(***************************************************************************)
NewInstance ==
    [steps |-> 0, parent |-> << >>, visited |-> {}, cost |-> << >>,
     parent_start |-> << >>, parent_target |-> << >>,
     frontier_start |-> {}, frontier_target |-> {}]

\* BaseSearch.reset that leaves self.visited as it is
BaseSearch_reset_keeps_visited(inst) ==
    [inst EXCEPT !.parent = << >>, !.steps = 0]

\* BaseSearch.reset
BaseSearch_reset(inst) ==
    [inst EXCEPT !.visited = {}, !.parent = << >>, !.steps = 0]

\* UCS.reset
UCS_reset(inst) == [BaseSearch_reset(inst) EXCEPT !.cost = << >>]

\* BidirectionalSearch.reset
Bidirectional_reset(inst) ==
    [BaseSearch_reset(inst) EXCEPT !.frontier_start = {}, !.frontier_target = {},
                                   !.parent_start = << >>, !.parent_target = << >>]

\* BFS.search on an instance: the result, and the instance after the call
BFS_search_on(inst, start, target, nb) ==
    LET i0 == BaseSearch_reset(inst)
        st0 == [visited |-> i0.visited \cup {start},
                parent |-> DictSet(i0.parent, start, None), queue |-> <<start>>]
        S == bfs_loop(target, nb, st0, << >>, << >>, i0.steps)
    IN  [result |-> S.result,
         instance |-> [i0 EXCEPT !.visited = S.st.visited, !.parent = S.st.parent,
                                 !.steps = S.steps]]

\* DFS.search on an instance
DFS_search_on(inst, start, target, nb) ==
    LET i0 == BaseSearch_reset(inst)
        st0 == [visited |-> i0.visited \cup {start},
                parent |-> DictSet(i0.parent, start, None), stack |-> <<start>>]
        S == dfs_loop(target, nb, st0, << >>, << >>, i0.steps)
    IN  [result |-> S.result,
         instance |-> [i0 EXCEPT !.visited = S.st.visited, !.parent = S.st.parent,
                                 !.steps = S.steps]]

\* UCS.search on an instance
UCS_search_on(inst, start, target, nb) ==
    LET i0 == UCS_reset(inst)
        st0 == [visited |-> i0.visited \cup {start},
                parent |-> DictSet(i0.parent, start, None),
                cost |-> DictSet(i0.cost, start, 0), counter |-> 0,
                pq |-> << <<0, 0, start>> >>]
        S == ucs_loop(target, nb, st0, << >>, << >>, i0.steps)
    IN  [result |-> S.result,
         instance |-> [i0 EXCEPT !.visited = S.st.visited, !.parent = S.st.parent,
                                 !.cost = S.st.cost, !.steps = S.steps]]

\* DLS.search on an instance: visited and parent are locals of the call,
\* self.steps is counted by dls_recursive
DLS_search_on(inst, start, target, nb, limit) ==
    LET i0 == BaseSearch_reset(inst)
    IN  IF start = target
        THEN [result |-> SearchResult(<<start>>, <<start>>, << << >> >>, 1, FOUND),
              instance |-> i0]
        ELSE LET st == dls_run(start, target, nb, limit, i0.steps)
                 result ==
                     IF st.returned /\ st.found_path # NonePath /\ st.found_path # << >>
                     THEN SearchResult(st.found_path, st.visited_order,
                                       st.frontier_history, st.steps, FOUND)
                     ELSE SearchResult(NonePath, st.visited_order,
                                       st.frontier_history, st.steps, NOT_FOUND)
             IN  [result |-> result, instance |-> [i0 EXCEPT !.steps = st.steps]]

\* IDDFS.search on an instance: every container is a local of the call and
\* self.steps is assigned total_steps
IDDFS_search_on(inst, start, target, nb, max_depth) ==
    LET i0 == BaseSearch_reset(inst)
        result == IDDFS_search(start, target, nb, max_depth)
    IN  [result |-> result,
         instance |-> IF start = target THEN i0 ELSE [i0 EXCEPT !.steps = result.steps]]

\* BidirectionalSearch.search on an instance
Bidirectional_search_on(inst, start, target, nb) ==
    LET i0 == Bidirectional_reset(inst)
    IN  IF start = target
        THEN [result |-> SearchResult(<<start>>, <<start>>, << << >> >>, 1, FOUND),
              instance |-> i0]
        ELSE LET st == bidir_loop(nb,
                      [queue_start |-> <<start>>, queue_target |-> <<target>>,
                       frontier_start |-> i0.frontier_start \cup {start},
                       frontier_target |-> i0.frontier_target \cup {target},
                       parent_start |-> DictSet(i0.parent_start, start, start),
                       parent_target |-> DictSet(i0.parent_target, target, target),
                       visited_start |-> {start}, visited_target |-> {target},
                       visited_order |-> << >>, frontier_history |-> << >>,
                       steps |-> i0.steps, meeting_point |-> None])
                 result ==
                     IF st.meeting_point # None
                     THEN SearchResult(
                              reconstruct_bidirectional_path(st.parent_start,
                                  st.parent_target, st.meeting_point),
                              st.visited_order, st.frontier_history, st.steps, FOUND)
                     ELSE SearchResult(NonePath, st.visited_order, st.frontier_history,
                                       st.steps, NOT_FOUND)
             IN  [result |-> result,
                  instance |-> [i0 EXCEPT !.frontier_start = st.frontier_start,
                                          !.frontier_target = st.frontier_target,
                                          !.parent_start = st.parent_start,
                                          !.parent_target = st.parent_target,
                                          !.steps = st.steps]]

(***************************************************************************)
(* State                                                                   *)
(***************************************************************************)
VARIABLES
    size,               \* Grid.size
    grid,               \* Grid.grid: cell -> CellState
    start_pos,          \* Grid.start_pos
    target_pos,         \* Grid.target_pos
    static_walls,       \* Grid.static_walls
    dynamic_obstacles,  \* Grid.dynamic_obstacles
    replan_count,       \* DynamicEnvironment.replan_count
    blocked_paths,      \* DynamicEnvironment.blocked_paths
    algorithm,          \* the strategy instance last run: [name, limit]
    current_result,     \* the SearchResult last returned
    instance,           \* the fields that strategy instance holds
    agent_pos,          \* current_pos of the coordinator calls under way, else None
    op,                 \* the operation last called
    arg,                \* the position or path a Grid operation was called with
    ret                 \* what it returned

vars == <<size, grid, start_pos, target_pos, static_walls, dynamic_obstacles,
          replan_count, blocked_paths, algorithm, current_result, instance,
          agent_pos, op, arg, ret>>

grid_vars == <<size, grid, start_pos, target_pos, static_walls, dynamic_obstacles>>
env_vars == <<replan_count, blocked_paths>>

\* an algorithm instance: its class and its depth_limit / max_depth
Algo(name, limit) == [limit |-> limit, name |-> name]

\* algorithm.search(start, target, get_neighbors_func) by class
run_search(a, start, target, nb) ==
    CASE a.name = "BFS" -> BFS_search(start, target, nb)
      [] a.name = "DFS" -> DFS_search(start, target, nb)
      [] a.name = "UCS" -> UCS_search(start, target, nb)
      [] a.name = "DLS" -> DLS_search(start, target, nb, a.limit)
      [] a.name = "IDDFS" -> IDDFS_search(start, target, nb, a.limit)
      [] a.name = "BIDIRECTIONAL" -> Bidirectional_search(start, target, nb)

\* algorithm.search(start, target, get_neighbors_func) called on the instance
\* holding inst: the result, and what the instance holds afterwards
run_search_on(a, inst, start, target, nb) ==
    CASE a.name = "BFS" -> BFS_search_on(inst, start, target, nb)
      [] a.name = "DFS" -> DFS_search_on(inst, start, target, nb)
      [] a.name = "UCS" -> UCS_search_on(inst, start, target, nb)
      [] a.name = "DLS" -> DLS_search_on(inst, start, target, nb, a.limit)
      [] a.name = "IDDFS" -> IDDFS_search_on(inst, start, target, nb, a.limit)
      [] a.name = "BIDIRECTIONAL" -> Bidirectional_search_on(inst, start, target, nb)

\* the cell matrix of a grid with the given walls and markers
\* (Grid.__init__, then add_wall per wall, then the two markers)
grid_of(n, walls, start, target) ==
    [c \in CellsOf(n) |->
        IF c = start THEN START
        ELSE IF c = target THEN TARGET
        ELSE IF c \in walls THEN WALL
        ELSE EMPTY]

(***************************************************************************)
(* src/grid.py: the operations on the grid                                 *)
(***************************************************************************)
\* Grid.clear_search_visualization
clear_search_visualization(g) ==
    [c \in DOMAIN g |-> IF g[c] \in {FRONTIER, EXPLORED, PATH} THEN EMPTY ELSE g[c]]

(***************************************************************************)
(* The search specification: a grid, a start and a target are drawn, and   *)
(* each strategy is run on them.  As in main.py a search is started only   *)
(* while none is running (handle_button_click 'start').                    *)
(***************************************************************************)
InitSearch(n, max_walls) ==
    /\ size = n
    /\ \E walls \in AtMost(CellsOf(n), max_walls) :
         \E s \in CellsOf(n) \ walls, t \in CellsOf(n) \ walls :
            /\ static_walls = walls
            /\ start_pos = s
            /\ target_pos = t
            /\ grid = grid_of(n, walls, s, t)
    /\ dynamic_obstacles = {}
    /\ replan_count = 0
    /\ blocked_paths = 0
    /\ algorithm = Algo("none", 0)
    /\ current_result = NoResult
    /\ instance = NewInstance
    /\ agent_pos = None
    /\ op = "init"
    /\ arg = None
    /\ ret = TRUE

Init == InitSearch(Size, MaxWalls)

\* PathfinderApp.run_algorithm: the visualization is cleared, the coordinator
\* reset, and algorithm.search(grid.start_pos, grid.target_pos,
\* grid.get_neighbors) run
Search(a) ==
    /\ current_result = NoResult
    /\ algorithm' = a
    /\ grid' = clear_search_visualization(grid)
    /\ replan_count' = 0
    /\ blocked_paths' = 0
    /\ LET r == run_search_on(a, instance, start_pos, target_pos,
                              neighbor_fn(clear_search_visualization(grid), size))
       IN  /\ current_result' = r.result
           /\ instance' = r.instance
    /\ op' = "search"
    /\ UNCHANGED <<size, start_pos, target_pos, static_walls, dynamic_obstacles,
                   agent_pos, arg, ret>>

SearchBFS == Search(Algo("BFS", 0))
SearchDFS == Search(Algo("DFS", 0))
SearchUCS == Search(Algo("UCS", 0))
SearchDLS == \E limit \in 0..MaxLimit : Search(Algo("DLS", limit))
SearchIDDFS == Search(Algo("IDDFS", size * size))
SearchBidirectional == Search(Algo("BIDIRECTIONAL", 0))

Next ==
    \/ SearchBFS
    \/ SearchDFS
    \/ SearchUCS
    \/ SearchDLS
    \/ SearchIDDFS
    \/ SearchBidirectional

Spec == Init /\ [][Next]_vars

(***************************************************************************)
(* The same searches on a wider grid with fewer walls.                     *)
(***************************************************************************)
WideSize == 4
WideWalls == 1

InitWide == InitSearch(WideSize, WideWalls)

SpecWide == InitWide /\ [][Next]_vars

(***************************************************************************)
(* src/dynamic_environment.py                                              *)
(* Indices are Python's, counted from 0: path[i] of the code is path[i+1]  *)
(* here.                                                                   *)
(***************************************************************************)
\* path.index(pos): the first index of pos in path, -1 for ValueError
RECURSIVE index_from(_, _, _)
index_from(path, pos, i) ==
    IF i >= Len(path) THEN -1
    ELSE IF path[i + 1] = pos THEN i
    ELSE index_from(path, pos, i + 1)

index_of(path, pos) == index_from(path, pos, 0)

\* the for loop of check_path_blocked: is a cell of path[i:] not walkable
RECURSIVE blocked_from(_, _, _, _)
blocked_from(g, n, path, i) ==
    IF i >= Len(path) THEN FALSE
    ELSE IF ~is_walkable(g, n, path[i + 1]) THEN TRUE
    ELSE blocked_from(g, n, path, i + 1)

\* check_path_blocked without the count of the detection
check_path_blocked_uncounted(g, n, path, current_index, blocked) ==
    [ret |-> path # NonePath /\ path # << >> /\ current_index < Len(path)
             /\ blocked_from(g, n, path, current_index),
     blocked_paths |-> blocked]

\* DynamicEnvironment.check_path_blocked: what it returns, and blocked_paths after
check_path_blocked(g, n, path, current_index, blocked) ==
    IF path = NonePath \/ path = << >> \/ current_index >= Len(path)
    THEN [ret |-> FALSE, blocked_paths |-> blocked]
    ELSE IF blocked_from(g, n, path, current_index)
    THEN [ret |-> TRUE, blocked_paths |-> blocked + 1]
    ELSE [ret |-> FALSE, blocked_paths |-> blocked]

\* DynamicEnvironment.replan_needed: what it returns, and blocked_paths after
replan_needed(g, n, result, current_pos, blocked) ==
    IF result.status # FOUND \/ result.path = NonePath \/ result.path = << >>
    THEN [ret |-> FALSE, blocked_paths |-> blocked]
    ELSE LET current_index == index_of(result.path, current_pos)
         IN  IF current_index = -1
             THEN [ret |-> TRUE, blocked_paths |-> blocked]
             ELSE LET c == check_path_blocked(g, n, result.path, current_index + 1,
                                              blocked)
                      next_index == current_index + 1
                  IN  IF c.ret THEN c
                      ELSE IF next_index < Len(result.path)
                              /\ ~is_walkable(g, n, result.path[next_index + 1])
                      THEN [ret |-> TRUE, blocked_paths |-> c.blocked_paths]
                      ELSE [ret |-> FALSE, blocked_paths |-> c.blocked_paths]

\* trigger_replan searching from grid.start_pos instead of current_pos
trigger_replan_from_start(g, n, current_pos, a, target, inst) ==
    run_search_on(a, inst, start_pos, target,
                  neighbor_fn(clear_search_visualization(g), n))

\* DynamicEnvironment.trigger_replan: the search it runs on the cleared grid,
\* on the instance it is given
trigger_replan(g, n, current_pos, a, target, inst) ==
    run_search_on(a, inst, current_pos, target,
                  neighbor_fn(clear_search_visualization(g), n))

(***************************************************************************)
(* The replanning specification: a search runs on an open grid, walls are  *)
(* added, and the coordinator is asked whether to replan for an agent at   *)
(* some cell; when it says so the caller replans from that cell            *)
(* (main.py check_and_replan).                                             *)
(***************************************************************************)
\* side of the grid of the replanning specification
ReplanSize == 3
\* at most this many walls are added
ReplanWalls == 1
\* the counters are followed up to this value
MaxCount == 1

\* Grid.set_start and set_target keep the two markers apart
InitReplan == InitSearch(ReplanSize, 0) /\ start_pos # target_pos

\* the strategy instances of the replanning specification
ReplanAlgos ==
    {Algo("BFS", 0), Algo("DFS", 0), Algo("UCS", 0), Algo("DLS", MaxLimit),
     Algo("IDDFS", size * size), Algo("BIDIRECTIONAL", 0)}

\* Grid.add_wall(row, col)
AddWall(pos) ==
    /\ Cardinality(static_walls \cup {pos}) <= ReplanWalls
    /\ IF ~validate_position(size, pos) \/ pos = start_pos \/ pos = target_pos
       THEN /\ ret' = FALSE
            /\ UNCHANGED <<grid, static_walls>>
       ELSE /\ grid' = [grid EXCEPT ![pos] = WALL]
            /\ static_walls' = static_walls \cup {pos}
            /\ ret' = TRUE
    /\ op' = "add_wall"
    /\ arg' = pos
    /\ agent_pos' = None
    /\ UNCHANGED <<size, start_pos, target_pos, dynamic_obstacles, env_vars, algorithm,
                   current_result, instance>>

\* env.replan_needed(current_result, current_pos)
ReplanNeeded(pos) ==
    /\ current_result # NoResult
    /\ blocked_paths < MaxCount
    /\ LET r == replan_needed(grid, size, current_result, pos, blocked_paths)
       IN  /\ ret' = r.ret
           /\ blocked_paths' = r.blocked_paths
    /\ agent_pos' = pos
    /\ op' = "replan_needed"
    /\ UNCHANGED <<grid_vars, replan_count, algorithm, current_result, instance, arg>>

\* env.trigger_replan(current_pos, algorithm, grid.get_neighbors), called with
\* the current algorithm when replan_needed has just returned True
TriggerReplan(a) ==
    /\ op = "replan_needed" /\ ret = TRUE
    /\ a = algorithm
    /\ replan_count < MaxCount
    /\ replan_count' = replan_count + 1
    /\ grid' = clear_search_visualization(grid)
    /\ LET r == trigger_replan(grid, size, agent_pos, a, target_pos, instance)
       IN  /\ current_result' = r.result
           /\ instance' = r.instance
    /\ algorithm' = a
    /\ op' = "trigger_replan"
    /\ UNCHANGED <<size, start_pos, target_pos, static_walls, dynamic_obstacles,
                   blocked_paths, agent_pos, arg, ret>>

\* env.reset()
EnvReset ==
    /\ replan_count' = 0
    /\ blocked_paths' = 0
    /\ agent_pos' = None
    /\ op' = "reset"
    /\ UNCHANGED <<grid_vars, algorithm, current_result, instance, arg, ret>>

NextReplan ==
    \/ \E a \in ReplanAlgos : Search(a)
    \/ \E pos \in CellsOf(size) : AddWall(pos)
    \/ \E pos \in CellsOf(size) : ReplanNeeded(pos)
    \/ \E a \in ReplanAlgos : TriggerReplan(a)

SpecReplan == InitReplan /\ [][NextReplan]_vars

(***************************************************************************)
(* The replanning specification with env.reset() called at any time, for   *)
(* the starts of the first row: after a reset the counters count again.    *)
(***************************************************************************)
InitCounters == InitReplan /\ start_pos[1] = 0

NextCounters ==
    \/ \E a \in ReplanAlgos : Search(a)
    \/ \E pos \in CellsOf(size) : AddWall(pos)
    \/ \E pos \in CellsOf(size) : ReplanNeeded(pos)
    \/ \E a \in ReplanAlgos : TriggerReplan(a)
    \/ EnvReset

SpecCounters == InitCounters /\ [][NextCounters]_vars

(***************************************************************************)
(* The grid specification: a grid is constructed and default-initialised   *)
(* as in main.py, and the operations of src/grid.py are called on it in    *)
(* any order with any argument.                                            *)
(***************************************************************************)
\* sides of the grids of the grid specification
GridSizes == {2, 3}
\* at most this many static walls are followed
GridWalls == 1
\* mark_path is called with paths of at most this many cells
MaxPathLen == 2
\* at most this many cells carry FRONTIER, EXPLORED or PATH
MaxMarked == 1
\* config.MAX_DYNAMIC_OBSTACLES is 50; the cap is followed at a value the
\* grids of the model can reach
MAX_DYNAMIC_OBSTACLES == 1

\* the in-bounds cells the operations are called with
ArgCells(n) == {<<0, 0>>, <<0, 1>>, <<1, 1>>, <<n - 2, n - 2>>}
\* the out-of-bounds positions they are called with
OutOfBounds(n) == {<<-1, 0>>, <<0, n>>}
Positions(n) == ArgCells(n) \cup OutOfBounds(n)

\* the paths mark_path is called with: the empty path, one position, or
\* up to MaxPathLen cells
Paths(n) ==
    {<< >>} \cup {<<pos>> : pos \in Positions(n)}
            \cup UNION {[1..k -> ArgCells(n)] : k \in 2..MaxPathLen}

\* Grid.initialize_default: the cell matrix after it
initialize_default(n) ==
    LET start == <<1, 1>>
        target == <<n - 2, n - 2>>
        g0 == [c \in CellsOf(n) |-> EMPTY]
        g1 == [g0 EXCEPT ![start] = START]
    IN  [g1 EXCEPT ![target] = TARGET]

InitGrid ==
    /\ size \in GridSizes
    /\ grid = initialize_default(size)
    /\ start_pos = <<1, 1>>
    /\ target_pos = <<size - 2, size - 2>>
    /\ static_walls = {}
    /\ dynamic_obstacles = {}
    /\ replan_count = 0
    /\ blocked_paths = 0
    /\ algorithm = Algo("none", 0)
    /\ current_result = NoResult
    /\ instance = NewInstance
    /\ agent_pos = None
    /\ op = "init"
    /\ arg = None
    /\ ret = TRUE

\* what the operations of the grid leave alone
GridFrame == UNCHANGED <<size, env_vars, algorithm, current_result, instance, agent_pos>>

\* set_start that leaves the previous marker's cell as it is
Grid_set_start_keeps_old(pos) ==
    /\ op' = "set_start"
    /\ arg' = pos
    /\ IF ~validate_position(size, pos) \/ pos = target_pos
       THEN /\ ret' = FALSE
            /\ UNCHANGED <<grid, start_pos>>
       ELSE /\ grid' = [grid EXCEPT ![pos] = START]
            /\ start_pos' = pos
            /\ ret' = TRUE
    /\ UNCHANGED <<target_pos, static_walls, dynamic_obstacles>>
    /\ GridFrame

\* Grid.set_start(row, col)
Grid_set_start(pos) ==
    /\ op' = "set_start"
    /\ arg' = pos
    /\ IF ~validate_position(size, pos) \/ pos = target_pos
       THEN /\ ret' = FALSE
            /\ UNCHANGED <<grid, start_pos>>
       ELSE /\ grid' = [(IF start_pos # None THEN [grid EXCEPT ![start_pos] = EMPTY]
                         ELSE grid) EXCEPT ![pos] = START]
            /\ start_pos' = pos
            /\ ret' = TRUE
    /\ UNCHANGED <<target_pos, static_walls, dynamic_obstacles>>
    /\ GridFrame

\* Grid.set_target(row, col)
Grid_set_target(pos) ==
    /\ op' = "set_target"
    /\ arg' = pos
    /\ IF ~validate_position(size, pos) \/ pos = start_pos
       THEN /\ ret' = FALSE
            /\ UNCHANGED <<grid, target_pos>>
       ELSE /\ grid' = [(IF target_pos # None THEN [grid EXCEPT ![target_pos] = EMPTY]
                         ELSE grid) EXCEPT ![pos] = TARGET]
            /\ target_pos' = pos
            /\ ret' = TRUE
    /\ UNCHANGED <<start_pos, static_walls, dynamic_obstacles>>
    /\ GridFrame

\* add_wall without the test for start_pos and target_pos
Grid_add_wall_over_markers(pos) ==
    /\ \/ ~validate_position(size, pos)
       \/ Cardinality(static_walls \cup {pos}) <= GridWalls
    /\ op' = "add_wall"
    /\ arg' = pos
    /\ IF ~validate_position(size, pos)
       THEN /\ ret' = FALSE
            /\ UNCHANGED <<grid, static_walls>>
       ELSE /\ grid' = [grid EXCEPT ![pos] = WALL]
            /\ static_walls' = static_walls \cup {pos}
            /\ ret' = TRUE
    /\ UNCHANGED <<start_pos, target_pos, dynamic_obstacles>>
    /\ GridFrame

\* Grid.add_wall(row, col)
Grid_add_wall(pos) ==
    /\ \/ ~validate_position(size, pos) \/ pos = start_pos \/ pos = target_pos
       \/ Cardinality(static_walls \cup {pos}) <= GridWalls
    /\ op' = "add_wall"
    /\ arg' = pos
    /\ IF ~validate_position(size, pos) \/ pos = start_pos \/ pos = target_pos
       THEN /\ ret' = FALSE
            /\ UNCHANGED <<grid, static_walls>>
       ELSE /\ grid' = [grid EXCEPT ![pos] = WALL]
            /\ static_walls' = static_walls \cup {pos}
            /\ ret' = TRUE
    /\ UNCHANGED <<start_pos, target_pos, dynamic_obstacles>>
    /\ GridFrame

\* Grid.remove_wall(row, col)
Grid_remove_wall(pos) ==
    /\ op' = "remove_wall"
    /\ arg' = pos
    /\ IF validate_position(size, pos) /\ grid[pos] = WALL
       THEN /\ grid' = [grid EXCEPT ![pos] = EMPTY]
            /\ static_walls' = static_walls \ {pos}
            /\ ret' = TRUE
       ELSE /\ ret' = FALSE
            /\ UNCHANGED <<grid, static_walls>>
    /\ UNCHANGED <<start_pos, target_pos, dynamic_obstacles>>
    /\ GridFrame

\* Grid.clear_walls()
Grid_clear_walls ==
    /\ op' = "clear_walls"
    /\ arg' = None
    /\ ret' = None
    /\ grid' = [c \in DOMAIN grid |-> IF grid[c] = WALL THEN EMPTY ELSE grid[c]]
    /\ static_walls' = {}
    /\ UNCHANGED <<start_pos, target_pos, dynamic_obstacles>>
    /\ GridFrame

\* the empty_cells of spawn_dynamic_obstacle
empty_cells(g, n, start, target) ==
    {c \in CellsOf(n) : g[c] = EMPTY /\ c # start /\ c # target}

\* spawn_dynamic_obstacle without the test of the cap
Grid_spawn_dynamic_obstacle_uncapped ==
    /\ op' = "spawn_dynamic_obstacle"
    /\ arg' = None
    /\ \/ /\ ret' = None
          /\ UNCHANGED <<grid, dynamic_obstacles>>
       \/ \E pos \in empty_cells(grid, size, start_pos, target_pos) :
             /\ grid' = [grid EXCEPT ![pos] = DYNAMIC_OBSTACLE]
             /\ dynamic_obstacles' = dynamic_obstacles \cup {pos}
             /\ ret' = pos
    /\ UNCHANGED <<start_pos, target_pos, static_walls>>
    /\ GridFrame

\* Grid.spawn_dynamic_obstacle(): random.random() and random.choice are free
Grid_spawn_dynamic_obstacle ==
    /\ op' = "spawn_dynamic_obstacle"
    /\ arg' = None
    /\ IF Cardinality(dynamic_obstacles) >= MAX_DYNAMIC_OBSTACLES
       THEN /\ ret' = None
            /\ UNCHANGED <<grid, dynamic_obstacles>>
       ELSE \/ /\ ret' = None
               /\ UNCHANGED <<grid, dynamic_obstacles>>
            \/ \E pos \in empty_cells(grid, size, start_pos, target_pos) :
                  /\ grid' = [grid EXCEPT ![pos] = DYNAMIC_OBSTACLE]
                  /\ dynamic_obstacles' = dynamic_obstacles \cup {pos}
                  /\ ret' = pos
    /\ UNCHANGED <<start_pos, target_pos, static_walls>>
    /\ GridFrame

\* Grid.remove_dynamic_obstacle(row, col)
Grid_remove_dynamic_obstacle(pos) ==
    /\ op' = "remove_dynamic_obstacle"
    /\ arg' = pos
    /\ IF validate_position(size, pos) /\ pos \in dynamic_obstacles
       THEN /\ grid' = [grid EXCEPT ![pos] = EMPTY]
            /\ dynamic_obstacles' = dynamic_obstacles \ {pos}
            /\ ret' = TRUE
       ELSE /\ ret' = FALSE
            /\ UNCHANGED <<grid, dynamic_obstacles>>
    /\ UNCHANGED <<start_pos, target_pos, static_walls>>
    /\ GridFrame

\* Grid.clear_dynamic_obstacles, on the cell matrix
clear_dynamic_obstacles(g, obstacles) ==
    [c \in DOMAIN g |-> IF c \in obstacles THEN EMPTY ELSE g[c]]

\* Grid.clear_dynamic_obstacles()
Grid_clear_dynamic_obstacles ==
    /\ op' = "clear_dynamic_obstacles"
    /\ arg' = None
    /\ ret' = None
    /\ grid' = clear_dynamic_obstacles(grid, dynamic_obstacles)
    /\ dynamic_obstacles' = {}
    /\ UNCHANGED <<start_pos, target_pos, static_walls>>
    /\ GridFrame

\* mark_frontier writing over every cell that is not FRONTIER yet
mark_frontier_anywhere(g, n, pos) ==
    IF ~validate_position(n, pos) THEN [grid |-> g, ret |-> FALSE]
    ELSE IF g[pos] # FRONTIER
    THEN [grid |-> [g EXCEPT ![pos] = FRONTIER], ret |-> TRUE]
    ELSE [grid |-> g, ret |-> FALSE]

\* Grid.mark_frontier: the cell matrix after it and what it returns
mark_frontier(g, n, pos) ==
    IF ~validate_position(n, pos) THEN [grid |-> g, ret |-> FALSE]
    ELSE IF g[pos] = EMPTY
    THEN [grid |-> [g EXCEPT ![pos] = FRONTIER], ret |-> TRUE]
    ELSE [grid |-> g, ret |-> FALSE]

\* mark_explored writing over PATH cells as well
mark_explored_over_path(g, n, pos) ==
    IF ~validate_position(n, pos) THEN [grid |-> g, ret |-> FALSE]
    ELSE IF g[pos] \in {FRONTIER, EMPTY, PATH}
    THEN [grid |-> [g EXCEPT ![pos] = EXPLORED], ret |-> TRUE]
    ELSE [grid |-> g, ret |-> FALSE]

\* Grid.mark_explored: the cell matrix after it and what it returns
mark_explored(g, n, pos) ==
    IF ~validate_position(n, pos) THEN [grid |-> g, ret |-> FALSE]
    ELSE IF g[pos] \in {FRONTIER, EMPTY}
    THEN [grid |-> [g EXCEPT ![pos] = EXPLORED], ret |-> TRUE]
    ELSE [grid |-> g, ret |-> FALSE]

\* the for loop of mark_path, from path[i] on (counted from 1)
RECURSIVE mark_path_from(_, _, _, _, _, _, _)
mark_path_from(g, n, path, i, start, target, marked) ==
    IF i > Len(path) THEN [grid |-> g, ret |-> marked]
    ELSE LET pos == path[i] IN
         IF /\ validate_position(n, pos)
            /\ pos # start /\ pos # target
            /\ g[pos] \notin {WALL, DYNAMIC_OBSTACLE}
         THEN mark_path_from([g EXCEPT ![pos] = PATH], n, path, i + 1, start, target,
                             marked + 1)
         ELSE mark_path_from(g, n, path, i + 1, start, target, marked)

\* Grid.mark_path: the cell matrix after it and the number of cells marked
mark_path(g, n, path, start, target) == mark_path_from(g, n, path, 1, start, target, 0)

\* the cells carrying a mark of the visualization
marked_cells(g) == {c \in DOMAIN g : g[c] \in {FRONTIER, EXPLORED, PATH}}

\* the frame of the marking operations
MarkFrame ==
    /\ Cardinality(marked_cells(grid')) <= MaxMarked
    /\ UNCHANGED <<start_pos, target_pos, static_walls, dynamic_obstacles>>
    /\ GridFrame

Grid_mark_frontier(pos) ==
    /\ op' = "mark_frontier"
    /\ arg' = pos
    /\ grid' = mark_frontier(grid, size, pos).grid
    /\ ret' = mark_frontier(grid, size, pos).ret
    /\ MarkFrame

Grid_mark_explored(pos) ==
    /\ op' = "mark_explored"
    /\ arg' = pos
    /\ grid' = mark_explored(grid, size, pos).grid
    /\ ret' = mark_explored(grid, size, pos).ret
    /\ MarkFrame

Grid_mark_path(path) ==
    /\ op' = "mark_path"
    /\ arg' = path
    /\ grid' = mark_path(grid, size, path, start_pos, target_pos).grid
    /\ ret' = mark_path(grid, size, path, start_pos, target_pos).ret
    /\ MarkFrame

\* Grid.clear_search_visualization()
Grid_clear_search_visualization ==
    /\ op' = "clear_search_visualization"
    /\ arg' = None
    /\ ret' = None
    /\ grid' = clear_search_visualization(grid)
    /\ MarkFrame

\* Grid.reset(): clear_search_visualization, then clear_dynamic_obstacles
Grid_reset ==
    /\ op' = "reset"
    /\ arg' = None
    /\ ret' = None
    /\ grid' = clear_dynamic_obstacles(clear_search_visualization(grid), dynamic_obstacles)
    /\ dynamic_obstacles' = {}
    /\ UNCHANGED <<start_pos, target_pos, static_walls>>
    /\ GridFrame

NextGrid ==
    \/ \E pos \in Positions(size) : Grid_set_start(pos)
    \/ \E pos \in Positions(size) : Grid_set_target(pos)
    \/ \E pos \in Positions(size) : Grid_add_wall(pos)
    \/ \E pos \in Positions(size) : Grid_remove_wall(pos)
    \/ Grid_clear_walls
    \/ Grid_spawn_dynamic_obstacle
    \/ \E pos \in Positions(size) : Grid_remove_dynamic_obstacle(pos)
    \/ Grid_clear_dynamic_obstacles
    \/ \E pos \in Positions(size) : Grid_mark_frontier(pos)
    \/ \E pos \in Positions(size) : Grid_mark_explored(pos)
    \/ \E path \in Paths(size) : Grid_mark_path(path)
    \/ Grid_clear_search_visualization
    \/ Grid_reset

SpecGrid == InitGrid /\ [][NextGrid]_vars

(***************************************************************************)
(* The scenario of src/test_algorithms.py: Grid(10) without walls, each    *)
(* strategy constructed as in its test and run once from a start near the  *)
(* top-left corner to a target near the bottom-right corner; the tests use *)
(* the default markers (1,1) and (8,8).                                    *)
(***************************************************************************)
\* side of the grid of the tests
ScenarioSize == 10
\* DLS(depth_limit=50) and IDDFS(max_depth=50) of the tests
ScenarioLimit == 50
\* the starts and the targets drawn: the corner blocks of side CornerSide
CornerSide == 2

ScenarioStarts == (0..(CornerSide - 1)) \X (0..(CornerSide - 1))
ScenarioTargets ==
    ((ScenarioSize - CornerSide)..(ScenarioSize - 1))
        \X ((ScenarioSize - CornerSide)..(ScenarioSize - 1))

InitScenario ==
    /\ InitSearch(ScenarioSize, 0)
    /\ start_pos \in ScenarioStarts
    /\ target_pos \in ScenarioTargets

NextScenario ==
    \/ Search(Algo("BFS", 0))
    \/ Search(Algo("DFS", 0))
    \/ Search(Algo("UCS", 0))
    \/ Search(Algo("DLS", ScenarioLimit))
    \/ Search(Algo("IDDFS", ScenarioLimit))
    \/ Search(Algo("BIDIRECTIONAL", 0))

SpecScenario == InitScenario /\ [][NextScenario]_vars

(***************************************************************************)
(* The searches on a grid with a wall segment in the last column but one,  *)
(* started behind the segment: cells beyond its ends are reached twice, by *)
(* routes of different cost.                                               *)
(***************************************************************************)
BarrierSize == 6

Barrier == {<<i, BarrierSize - 2>> : i \in 2..(BarrierSize - 2)}

BarrierStarts == {<<i, BarrierSize - 1>> : i \in 0..(BarrierSize - 1)}

InitBarrier ==
    /\ size = BarrierSize
    /\ \E walls \in SUBSET Barrier :
         \E s \in BarrierStarts, t \in CellsOf(BarrierSize) \ walls :
            /\ static_walls = walls
            /\ start_pos = s
            /\ target_pos = t
            /\ grid = grid_of(BarrierSize, walls, s, t)
    /\ dynamic_obstacles = {}
    /\ replan_count = 0
    /\ blocked_paths = 0
    /\ algorithm = Algo("none", 0)
    /\ current_result = NoResult
    /\ instance = NewInstance
    /\ agent_pos = None
    /\ op = "init"
    /\ arg = None
    /\ ret = TRUE

SpecBarrier == InitBarrier /\ [][Next]_vars

(***************************************************************************)
(* What the claims speak of, stated on the grid itself                     *)
(***************************************************************************)
LegalOffsets == {<<-1, 0>>, <<0, 1>>, <<1, 0>>, <<1, 1>>, <<0, -1>>, <<-1, -1>>}

Cells == CellsOf(size)

Walkable(c) == c \in Cells /\ grid[c] # WALL /\ grid[c] # DYNAMIC_OBSTACLE

\* b can be entered from a in one move
Adjacent(a, b) == Walkable(b) /\ <<b[1] - a[1], b[2] - a[2]>> \in LegalOffsets

\* the least number of moves from the cells of frontier (d moves from the
\* origin) to t, or -1 when t cannot be reached
RECURSIVE HopsFrom(_, _, _, _)
HopsFrom(seen, frontier, d, t) ==
    IF t \in frontier THEN d
    ELSE IF frontier = {} THEN -1
    ELSE LET all == seen \cup frontier
         IN  HopsFrom(all, {b \in Cells \ all : \E a \in frontier : Adjacent(a, b)},
                      d + 1, t)

Hops(s, t) == HopsFrom({}, {s}, 0, t)

HopDistance == Hops(start_pos, target_pos)

Searched == op = "search"
Ran(name) == Searched /\ algorithm.name = name
Found == current_result.status = FOUND

\* BFS on the inputs of the search that has run
BFSResult == BFS_search(start_pos, target_pos, neighbor_fn(grid, size))

\* C1: if a search returns FOUND its path starts at start, ends at target and
\* every consecutive pair of path cells differs by one of the six offsets.
C1_FoundPathIsWalk ==
    (Searched /\ Found) =>
        LET p == current_result.path
        IN  /\ Len(p) >= 1
            /\ p[1] = start_pos
            /\ p[Len(p)] = target_pos
            /\ \A i \in 1..(Len(p) - 1) :
                   <<p[i + 1][1] - p[i][1], p[i + 1][2] - p[i][2]>> \in LegalOffsets

\* C2: when BFS and the strategy that ran both return FOUND, the BFS path has
\* no more cells than the other path, and the BFS path has 1 + the shortest
\* hop distance cells.
C2_BFSShortest ==
    (Searched /\ Found /\ BFSResult.status = FOUND) =>
        /\ Len(BFSResult.path) <= Len(current_result.path)
        /\ Ran("BFS") => Len(current_result.path) = 1 + HopDistance

\* a strategy other than BFS returned a strictly longer path than BFS
C2_Witness ==
    /\ Ran("DFS") /\ Found
    /\ BFSResult.status = FOUND
    /\ Len(BFSResult.path) < Len(current_result.path)
    /\ Len(BFSResult.path) = 1 + HopDistance

\* C3: search(s, s, f) returns FOUND with path [s], whatever the walls.
C3_StartIsTarget ==
    (Searched /\ start_pos = target_pos) =>
        /\ current_result.status = FOUND
        /\ current_result.path = <<start_pos>>

\* a search from an enclosed cell to itself has returned
C3_Witness ==
    /\ Searched /\ start_pos = target_pos
    /\ static_walls # {}
    /\ neighbor_fn(grid, size)[start_pos] = << >>
    /\ current_result.path = <<start_pos>>

\* C4: if target is not reachable from start, search returns NOT_FOUND with
\* no path (and returns at all: every search is evaluated to a result).
C4_UnreachableNotFound ==
    (Searched /\ HopDistance = -1) =>
        /\ current_result.status = NOT_FOUND
        /\ current_result.path = NonePath

\* an enclosed start: get_neighbors(start) is empty and the search gave up
C4_Witness ==
    /\ Ran("BIDIRECTIONAL") /\ HopDistance = -1
    /\ neighbor_fn(grid, size)[start_pos] = << >>
    /\ current_result.status = NOT_FOUND

ReplanAsked == op = "replan_needed"
Replanned == op = "trigger_replan"
HasPath == Found /\ current_result.path # NonePath /\ current_result.path # << >>
AgentOnPath == HasPath /\ agent_pos \in Range(current_result.path)

\* the agent's index in the path (its first occurrence), counted from 1
AgentIndex ==
    CHOOSE i \in 1..Len(current_result.path) :
        /\ current_result.path[i] = agent_pos
        /\ \A j \in 1..(i - 1) : current_result.path[j] # agent_pos

\* C5: replan_needed is false without a FOUND path, true when the agent is
\* not on the path, and otherwise true exactly when a path cell from the
\* agent's index on, the agent's own cell included, is not walkable.
C5_ReplanNeededFromAgentCell ==
    ReplanAsked =>
        ret = IF ~HasPath THEN FALSE
              ELSE IF ~AgentOnPath THEN TRUE
              ELSE \E i \in AgentIndex..Len(current_result.path) :
                       ~Walkable(current_result.path[i])

\* a wall stands on a path cell beyond the agent's
WallAhead ==
    /\ AgentOnPath
    /\ \E i \in (AgentIndex + 1)..Len(current_result.path) :
           current_result.path[i] \in static_walls /\ grid[current_result.path[i]] = WALL

\* C6: with a wall added on a path cell beyond the agent's, replan_needed
\* returns true; and trigger_replan returns NOT_FOUND or a FOUND path from
\* the agent's cell to the grid's target.
C6_ReplanAfterWallAhead ==
    /\ (ReplanAsked /\ WallAhead) => ret = TRUE
    /\ Replanned =>
           \/ current_result.status = NOT_FOUND /\ current_result.path = NonePath
           \/ /\ HasPath
              /\ current_result.path[1] = agent_pos
              /\ current_result.path[Len(current_result.path)] = target_pos

\* a replan from a cell in the middle of the route, around the wall, found a path
C6_Witness ==
    /\ Replanned /\ HasPath
    /\ static_walls # {}
    /\ agent_pos # start_pos
    /\ agent_pos # target_pos
    /\ current_result.path[1] = agent_pos
    /\ Len(current_result.path) >= 3

\* C7: DLS with limit L returns NOT_FOUND when the hop distance exceeds L,
\* a FOUND path has at most L + 1 cells, and no cell farther than L hops
\* from start is visited.
C7_DLSWithinLimit ==
    Ran("DLS") =>
        /\ HopDistance > algorithm.limit => current_result.status = NOT_FOUND
        /\ Found => Len(current_result.path) <= algorithm.limit + 1
        /\ \A i \in 1..Len(current_result.visited_nodes) :
               LET h == Hops(start_pos, current_result.visited_nodes[i])
               IN  h >= 0 /\ h <= algorithm.limit

\* the target lies just beyond the limit and DLS gave up after visiting cells
C7_Witness ==
    /\ Ran("DLS") /\ algorithm.limit >= 1
    /\ HopDistance = algorithm.limit + 1
    /\ current_result.status = NOT_FOUND
    /\ Len(current_result.visited_nodes) > 1

\* C8: DLS with limit L returns FOUND whenever the hop distance is at most L.
C8_DLSCompleteWithinLimit ==
    (Ran("DLS") /\ HopDistance >= 0 /\ HopDistance <= algorithm.limit) => Found

\* C9: when BFS returns FOUND, IDDFS returns FOUND with a path of as many
\* cells as the BFS path.
C9_IDDFSOptimal ==
    (Ran("IDDFS") /\ BFSResult.status = FOUND) =>
        /\ Found
        /\ Len(current_result.path) = Len(BFSResult.path)

StepCost(a, b) ==
    IF <<b[1] - a[1], b[2] - a[2]>> \in {<<1, 1>>, <<-1, -1>>} THEN 1414 ELSE 1000

\* the sum of the costs of the moves of path p
RECURSIVE PathCost(_)
PathCost(p) ==
    IF Len(p) <= 1 THEN 0
    ELSE StepCost(p[1], p[2]) + PathCost(Tail(p))

\* more than any path of the grid costs
Unreached == 1414 * (Cardinality(Cells) + 1)

Least(S) == CHOOSE x \in S : \A y \in S : x <= y

\* the costs at which cell c is reached from the <<cell, cost>> pairs of D,
\* staying or making one more move
CostsTo(D, c) ==
    {p[2] : p \in {q \in D : q[1] = c}}
        \cup {p[2] + StepCost(p[1], c) : p \in {q \in D : Adjacent(q[1], c)}}

\* the least costs from the origin after k more rounds of relaxation
RECURSIVE Relaxed(_, _)
Relaxed(D, k) ==
    IF k = 0 THEN D
    ELSE Relaxed({<<c, Least(CostsTo(D, c))>> : c \in {x \in Cells : CostsTo(D, x) # {}}},
                 k - 1)

\* the least cost of a walk from s to t over walkable cells, Unreached if none
MinCost(s, t) ==
    LET D == Relaxed({<<s, 0>>}, Cardinality(Cells))
        T == {p[2] : p \in {q \in D : q[1] = t}}
    IN  IF T = {} THEN Unreached ELSE Least(T)

UCSCost == UCS_cost(start_pos, target_pos, neighbor_fn(grid, size))

\* C11: when UCS returns FOUND, the cost it reports is the cost of the path
\* it returns and is the least cost of any walkable path from start to target.
C11_UCSCostMinimal ==
    (Ran("UCS") /\ Found) =>
        /\ UCSCost = PathCost(current_result.path)
        /\ UCSCost = MinCost(start_pos, target_pos)

\* UCS took a diagonal step where a route of as many hops costs more
C11_Witness ==
    /\ Ran("UCS") /\ Found
    /\ static_walls # {}
    /\ UCSCost = MinCost(start_pos, target_pos)
    /\ UCSCost > 1000 * HopDistance
    /\ Len(current_result.path) >= 3

\* Up, Right, Down, Down-Right, Left, Up-Left
OffsetOrder == << <<-1, 0>>, <<0, 1>>, <<1, 0>>, <<1, 1>>, <<0, -1>>, <<-1, -1>> >>

\* the cells around pos in that order, in bounds or not
Around(pos) == [i \in 1..6 |-> <<pos[1] + OffsetOrder[i][1], pos[2] + OffsetOrder[i][2]>>]

\* the positions get_neighbors is asked about
Asked == Cells \cup OutOfBounds(size)

\* C12: get_neighbors(pos) is the list of the cells pos + d, d over the six
\* offsets in their order, that are in bounds and neither WALL nor
\* DYNAMIC_OBSTACLE; Up-Right and Down-Left never appear; at (0,0) only
\* Right, Down and Down-Right appear; out of bounds the list is empty.
C12_NeighborsInOrder ==
    \A pos \in Asked :
        LET nbs == get_neighbors(grid, size, pos) IN
        /\ pos \in Cells => nbs = SelectSeq(Around(pos), Walkable)
        /\ pos \notin Cells => nbs = << >>
        /\ \A i \in 1..Len(nbs) :
               <<nbs[i][1] - pos[1], nbs[i][2] - pos[2]>> \notin {<<-1, 1>>, <<1, -1>>}
        /\ pos = <<0, 0>> => Range(nbs) \subseteq {<<0, 1>>, <<1, 0>>, <<1, 1>>}

\* on a 3x3 grid the corner (0,0) has a wall and a dynamic obstacle next to
\* it and one neighbour left, and the centre keeps its walkable neighbours
C12_Witness ==
    /\ size = 3
    /\ grid[<<1, 1>>] = WALL
    /\ grid[<<1, 0>>] = DYNAMIC_OBSTACLE
    /\ get_neighbors(grid, size, <<0, 0>>) = << <<0, 1>> >>
    /\ Len(get_neighbors(grid, size, <<1, 1>>)) = 5
    /\ get_neighbors(grid, size, <<-1, 0>>) = << >>

\* the cells whose state is st
CellsWith(st) == {c \in Cells : grid[c] = st}

\* C13: at most one cell is START, at most one is TARGET, and the two
\* markers of a default-initialised grid are never at the same cell.
C13_MarkersDistinct ==
    /\ Cardinality(CellsWith(START)) <= 1
    /\ Cardinality(CellsWith(TARGET)) <= 1
    /\ (start_pos # None /\ target_pos # None) => start_pos # target_pos

\* C14: no cell of static_walls is start_pos or target_pos.
C14_WallsNotMarkers ==
    start_pos \notin static_walls /\ target_pos \notin static_walls

\* C15: dynamic_obstacles is disjoint from static_walls and holds neither
\* start_pos nor target_pos.
C15_ObstaclesApart ==
    /\ dynamic_obstacles \cap static_walls = {}
    /\ start_pos \notin dynamic_obstacles
    /\ target_pos \notin dynamic_obstacles

\* a call of the operation named has just returned
Called(name) == op = name
\* the step is a call of the operation named
Calls(name) == op' = name
\* the cells whose state is st after the step
CellsWithAfter(st) == {c \in Cells : grid'[c] = st}

\* C16: when set_start(pos) returns true the cell that held the marker is
\* no longer START, pos is START, start_pos is pos, and (both markers on the
\* grid before) exactly one cell is START and exactly one is TARGET; the
\* same for set_target.
C16_MarkerMoved ==
    [][/\ (Calls("set_start") /\ ret' = TRUE) =>
            /\ start_pos # None => grid'[start_pos] # START
            /\ grid'[arg'] = START
            /\ start_pos' = arg'
            /\ (CellsWith(START) # {} /\ CellsWith(TARGET) # {}) =>
                   /\ Cardinality(CellsWithAfter(START)) = 1
                   /\ Cardinality(CellsWithAfter(TARGET)) = 1
       /\ (Calls("set_target") /\ ret' = TRUE) =>
            /\ target_pos # None => grid'[target_pos] # TARGET
            /\ grid'[arg'] = TARGET
            /\ target_pos' = arg'
            /\ (CellsWith(START) # {} /\ CellsWith(TARGET) # {}) =>
                   /\ Cardinality(CellsWithAfter(START)) = 1
                   /\ Cardinality(CellsWithAfter(TARGET)) = 1]_vars

\* C16 as amended: the cell that held the marker is no longer START (TARGET)
\* when pos is another cell; the rest as stated.
C16_MarkerMovedElsewhere ==
    [][/\ (Calls("set_start") /\ ret' = TRUE) =>
            /\ (start_pos # None /\ start_pos # arg') => grid'[start_pos] # START
            /\ grid'[arg'] = START
            /\ start_pos' = arg'
            /\ (CellsWith(START) # {} /\ CellsWith(TARGET) # {}) =>
                   /\ Cardinality(CellsWithAfter(START)) = 1
                   /\ Cardinality(CellsWithAfter(TARGET)) = 1
       /\ (Calls("set_target") /\ ret' = TRUE) =>
            /\ (target_pos # None /\ target_pos # arg') => grid'[target_pos] # TARGET
            /\ grid'[arg'] = TARGET
            /\ target_pos' = arg'
            /\ (CellsWith(START) # {} /\ CellsWith(TARGET) # {}) =>
                   /\ Cardinality(CellsWithAfter(START)) = 1
                   /\ Cardinality(CellsWithAfter(TARGET)) = 1]_vars

\* on the default 2x2 grid set_start has moved the marker off (1,1)
C16_Witness ==
    /\ Called("set_start") /\ ret = TRUE
    /\ size = 2
    /\ start_pos = arg /\ start_pos # <<1, 1>>
    /\ grid[<<1, 1>>] = EMPTY
    /\ CellsWith(START) = {start_pos}
    /\ CellsWith(TARGET) = {target_pos}

\* the fields of the grid are as they were before the step
GridUnchanged ==
    UNCHANGED <<grid, start_pos, target_pos, static_walls, dynamic_obstacles>>

\* the position of the call is out of bounds
ArgOutside == arg' \notin Cells

\* C17: set_start and set_target with a position out of bounds or at the
\* other marker, add_wall and remove_wall with a position out of bounds or
\* at start_pos or target_pos, return false and change nothing of the grid.
C17_InvalidCallsRefused ==
    [][/\ (Calls("set_start") /\ (ArgOutside \/ arg' = target_pos)) =>
            (ret' = FALSE /\ GridUnchanged)
       /\ (Calls("set_target") /\ (ArgOutside \/ arg' = start_pos)) =>
            (ret' = FALSE /\ GridUnchanged)
       /\ (Calls("add_wall") /\ (ArgOutside \/ arg' = start_pos \/ arg' = target_pos)) =>
            (ret' = FALSE /\ GridUnchanged)
       /\ (Calls("remove_wall") /\ (ArgOutside \/ arg' = start_pos \/ arg' = target_pos)) =>
            (ret' = FALSE /\ GridUnchanged)]_vars

\* remove_wall was refused at the target, which stands on a cell still
\* listed in static_walls
C17_Witness ==
    /\ Called("remove_wall") /\ ret = FALSE
    /\ arg = target_pos
    /\ target_pos \in static_walls
    /\ grid[target_pos] = TARGET

\* C18: dynamic_obstacles never has more than MAX_DYNAMIC_OBSTACLES cells;
\* a position returned by spawn_dynamic_obstacle was EMPTY before the call
\* and neither start_pos nor target_pos; when it returns None the grid is
\* unchanged.
C18_SpawnWithinCap ==
    /\ [](Cardinality(dynamic_obstacles) <= MAX_DYNAMIC_OBSTACLES)
    /\ [][Calls("spawn_dynamic_obstacle") =>
            IF ret' = None THEN GridUnchanged
            ELSE /\ ret' \in Cells
                 /\ grid[ret'] = EMPTY
                 /\ ret' # start_pos /\ ret' # target_pos]_vars

\* an obstacle was spawned on a grid with a wall and the cap is reached
C18_Witness ==
    /\ Called("spawn_dynamic_obstacle") /\ ret # None
    /\ grid[ret] = DYNAMIC_OBSTACLE
    /\ Cardinality(dynamic_obstacles) = MAX_DYNAMIC_OBSTACLES
    /\ static_walls # {}

\* the step is a call of one of the three marking operations
Marks == op' \in {"mark_frontier", "mark_explored", "mark_path"}

\* C19: mark_frontier, mark_explored and mark_path never change a cell whose
\* state is WALL, DYNAMIC_OBSTACLE, START or TARGET.
C19_MarksSpareFixtures ==
    [][Marks =>
          \A c \in Cells :
              grid[c] \in {WALL, DYNAMIC_OBSTACLE, START, TARGET} => grid'[c] = grid[c]]_vars

\* mark_path went over a wall and an empty cell and marked the empty one only
C19_Witness ==
    /\ Called("mark_path") /\ ret = 1
    /\ Len(arg) = 2
    /\ grid[arg[1]] = WALL
    /\ grid[arg[2]] = PATH

\* the marking call that has just returned, made once more
MarkedAgain ==
    CASE Called("mark_frontier") -> mark_frontier(grid, size, arg).grid
      [] Called("mark_explored") -> mark_explored(grid, size, arg).grid
      [] Called("mark_path") -> mark_path(grid, size, arg, start_pos, target_pos).grid
      [] OTHER -> grid

DetectsBlockedAhead ==
    /\ HasPath
    /\ \E i \in 1..Len(current_result.path) :
           /\ current_result.path[i] = agent_pos'
           /\ \A j \in 1..(i - 1) : current_result.path[j] # agent_pos'
           /\ \E k \in (i + 1)..Len(current_result.path) :
                  ~Walkable(current_result.path[k])

\* C21: trigger_replan adds exactly 1 to replan_count, with a NOT_FOUND
\* result too, and leaves blocked_paths; replan_needed leaves replan_count
\* and adds 1 to blocked_paths when it detects a blocked path cell ahead,
\* 0 otherwise; no step but reset makes either counter smaller.
C21_CountersCount ==
    [][/\ Calls("trigger_replan") =>
            (replan_count' = replan_count + 1 /\ blocked_paths' = blocked_paths)
       /\ Calls("replan_needed") =>
            /\ replan_count' = replan_count
            /\ blocked_paths' = blocked_paths + (IF DetectsBlockedAhead THEN 1 ELSE 0)
       /\ (replan_count' < replan_count \/ blocked_paths' < blocked_paths) =>
            (Calls("reset") /\ replan_count' = 0 /\ blocked_paths' = 0)]_vars

\* a replan that found no path has been counted, after a counted detection
C21_Witness ==
    /\ Replanned
    /\ current_result.status = NOT_FOUND
    /\ replan_count = 1
    /\ blocked_paths = 1

\* the search last run, called with the same arguments on a freshly
\* constructed instance
FreshResult ==
    run_search_on(algorithm, NewInstance,
                  IF Replanned THEN agent_pos ELSE start_pos, target_pos,
                  neighbor_fn(grid, size)).result

\* C22: a search on an instance that has run earlier searches returns the
\* status, path, visited_nodes and steps that the same call returns on a
\* freshly constructed instance.
C22_NoStateSurvives ==
    (Searched \/ Replanned) =>
        /\ current_result.status = FreshResult.status
        /\ current_result.path = FreshResult.path
        /\ current_result.visited_nodes = FreshResult.visited_nodes
        /\ current_result.steps = FreshResult.steps

\* a replan has run on the instance whose first search had found a path on
\* the grid without the wall, from another cell
C22_Witness ==
    /\ Replanned /\ HasPath
    /\ static_walls # {}
    /\ agent_pos # start_pos
    /\ instance.steps = current_result.steps
    /\ instance.visited # {}

\* the searched grid is the 10x10 grid without walls with the markers of
\* initialize_default
DefaultScenario ==
    /\ Searched
    /\ size = 10
    /\ static_walls = {} /\ dynamic_obstacles = {}
    /\ start_pos = <<1, 1>> /\ target_pos = <<8, 8>>
    /\ algorithm.name \in {"DLS", "IDDFS"} => algorithm.limit = 50

\* C23: on the 10x10 grid without walls, from (1,1) to (8,8), each of the
\* six strategies (DLS and IDDFS with limit 50) returns FOUND, and the BFS
\* path has exactly 8 cells, the hop distance being 7.
C23_OpenTenByTen ==
    DefaultScenario =>
        /\ Found
        /\ Ran("BFS") => (Len(current_result.path) = 8 /\ HopDistance = 7)

\* BFS has run on that grid and found the 8 cells of the diagonal
C23_Witness ==
    /\ DefaultScenario /\ Ran("BFS") /\ Found
    /\ current_result.path = [i \in 1..8 |-> <<i, i>>]

\* no cell occurs twice in the sequence
NoRepeat(seq) == \A i, j \in 1..Len(seq) : seq[i] = seq[j] => i = j

\* C24: whenever Bidirectional returns FOUND no cell occurs more than once in
\* the path, the meeting cell being the target or the start included.
C24_BidirectionalPathOnce ==
    (Ran("BIDIRECTIONAL") /\ Found) => NoRepeat(current_result.path)

\* the strategies that keep one visited set for the whole search
SingleSweep == {"BFS", "DFS", "UCS", "DLS", "BIDIRECTIONAL"}

\* C25: within one search of BFS, DFS, UCS, DLS or Bidirectional no cell
\* occurs more than once in the returned visited_nodes.
C25_NoCellExpandedTwice ==
    (Searched /\ algorithm.name \in SingleSweep) =>
        NoRepeat(current_result.visited_nodes)

\* steps, frontier snapshots and expansions of the result agree in number
OnePerExpansion ==
    /\ current_result.steps = Len(current_result.frontier_nodes)
    /\ current_result.steps = Len(current_result.visited_nodes)

\* C26: for each of the six strategies and every input the result has one
\* step and one frontier snapshot per expansion:
\* steps = len(frontier_nodes) = len(visited_nodes).
C26_StepPerExpansion == Searched => OnePerExpansion

\* the neighbours of the cells of the search that has run
Nbrs == neighbor_fn(grid, size)

\* self.visited of DFS when it expands the k-th cell of visited_nodes: the
\* start and every neighbour of the cells expanded before
VisitedAt(k) ==
    {start_pos} \cup UNION {Range(Nbrs[current_result.visited_nodes[j]]) : j \in 1..(k - 1)}

\* the neighbours of the k-th expanded cell not yet in the visited set, in
\* get_neighbors order
UnvisitedAt(k) ==
    SelectSeq(Nbrs[current_result.visited_nodes[k]], LAMBDA n : n \notin VisitedAt(k))

\* C27: whenever DFS expands a cell other than the target that has a neighbour
\* not yet in the visited set, the next cell appended to visited_nodes is the
\* first such neighbour in get_neighbors order.
C27_DFSForwardOrder ==
    Ran("DFS") =>
        \A k \in 1..Len(current_result.visited_nodes) :
            (current_result.visited_nodes[k] # target_pos /\ UnvisitedAt(k) # << >>) =>
                /\ k < Len(current_result.visited_nodes)
                /\ current_result.visited_nodes[k + 1] = UnvisitedAt(k)[1]

\* DFS expanded a cell with several unvisited neighbours of which the first
\* was not the first neighbour, and went on to that one
C27_Witness ==
    /\ Ran("DFS")
    /\ \E k \in 1..(Len(current_result.visited_nodes) - 1) :
          /\ current_result.visited_nodes[k] # target_pos
          /\ Len(UnvisitedAt(k)) >= 2
          /\ UnvisitedAt(k)[1] # Nbrs[current_result.visited_nodes[k]][1]
          /\ current_result.visited_nodes[k + 1] = UnvisitedAt(k)[1]

\* the strategies that search without a depth limit of their own
Complete == {"BFS", "DFS", "UCS", "BIDIRECTIONAL"}

\* C28: for BFS, DFS, UCS and Bidirectional, if the target is reachable from
\* start through walkable cells under the six offsets, search returns FOUND.
C28_Completeness ==
    (Searched /\ algorithm.name \in Complete /\ HopDistance >= 0) => Found

\* Bidirectional found a target three or more moves away around walls
C28_Witness ==
    /\ Ran("BIDIRECTIONAL") /\ Found
    /\ static_walls # {}
    /\ HopDistance >= 3
    /\ Len(current_result.visited_nodes) >= 4

\* what replan_needed returns for the agent's cell on the grid as it is
ReplanAgain ==
    replan_needed(grid, size, current_result, agent_pos, blocked_paths).ret

\* C29: after trigger_replan has returned, FOUND or NOT_FOUND, and with the
\* grid as the replan left it, replan_needed(new_result, agent_pos) is false,
\* so that the caller, which replans only when replan_needed is true, replans
\* no more.
C29_ReplanStabilises == Replanned => ~ReplanAgain

\* the agent stood off the blocked path, a replan from its cell found a way
\* round the wall, and the coordinator asks for no further replan
C29_Witness ==
    /\ Replanned /\ HasPath
    /\ static_walls # {}
    /\ agent_pos \notin {start_pos, target_pos}
    /\ Len(current_result.path) >= 4
    /\ ~ReplanAgain

\* C30: in every state reached by grid operations static_walls is the set of
\* WALL cells, dynamic_obstacles the set of DYNAMIC_OBSTACLE cells, the cells
\* at start_pos and target_pos carry START and TARGET, and is_walkable(p) is
\* false exactly when p is out of bounds, in static_walls or in
\* dynamic_obstacles.
C30_BookkeepingAgrees ==
    /\ static_walls = CellsWith(WALL)
    /\ dynamic_obstacles = CellsWith(DYNAMIC_OBSTACLE)
    /\ start_pos # None => grid[start_pos] = START
    /\ target_pos # None => grid[target_pos] = TARGET
    /\ \A p \in Positions(size) :
           ~is_walkable(grid, size, p)
               <=> (~validate_position(size, p)
                       \/ p \in static_walls \/ p \in dynamic_obstacles)

====
